---- MODULE Spec2Model ----
(***************************************************************************)
(* The streaming conversational session of the chat window:               *)
(*   - chatService.sendMessage: the fetch, the line-oriented event-stream  *)
(*     parse loop and dispatchSSEEvent (services/chat.ts);                 *)
(*   - ChatWindow: the conversation list, the active-conversation pointer, *)
(*     the message list, handleSendMessage and its callbacks, and the      *)
(*     conversation select / create / delete handlers.                    *)
(*   - ChatInput: the input buffer, handleSend, and the voice capture     *)
(*     controller around a continuous speech-recognition session           *)
(*     (components/Chat/ChatInput.tsx).                                    *)
(* Text is a sequence of one-character strings, so that a chunk boundary   *)
(* may fall anywhere: inside a line, inside "event:" or between the        *)
(* event: and data: lines of one block.                                    *)
(***************************************************************************)
EXTENDS Integers, Sequences, FiniteSets, TLC

\* ------------------------------------------------------------------ bounds
\* Invocations of handleSendMessage that pass its guard in one behaviour.
MaxSends == 2
\* Sidebar operations (select, new, delete) in one behaviour.
MaxOps == 1
\* Sidebar operations in one behaviour of the sidebar specification.
MaxSidebarOps == 4
\* Requests made through the axios instance in one behaviour.
MaxRequests == 3
\* Speech-recognition sessions (captures) in one behaviour.
MaxSessions == 2
\* Entries of a recognition result list.
MaxResults == 2
\* Messages ChatInput hands to onSend in one behaviour.
MaxInputSends == 1
\* Length of the buffer a capture starts from.
MaxPreCapture == 1

\* ------------------------------------------------------------ text helpers
\* JavaScript null / undefined for a numeric id.
NoId == -1

Whitespace == {" ", "\t", "\r", "\n"}

RECURSIVE TrimStart(_)
TrimStart(s) ==
    IF s # <<>> /\ Head(s) \in Whitespace THEN TrimStart(Tail(s)) ELSE s

RECURSIVE TrimEnd(_)
TrimEnd(s) ==
    IF s # <<>> /\ s[Len(s)] \in Whitespace
    THEN TrimEnd(SubSeq(s, 1, Len(s) - 1))
    ELSE s

\* String.prototype.trim
Trim(s) == TrimEnd(TrimStart(s))

\* String.prototype.startsWith
StartsWith(s, p) == Len(s) >= Len(p) /\ SubSeq(s, 1, Len(p)) = p

\* String.prototype.slice(n) for 0 <= n
SliceFrom(s, n) == SubSeq(s, n + 1, Len(s))

\* rawLine.replace(/\r$/, '')
StripCR(s) ==
    IF s # <<>> /\ s[Len(s)] = "\r" THEN SubSeq(s, 1, Len(s) - 1) ELSE s

\* buffer.split('\n'): always at least one element; the last element is the
\* text after the last separator.
Split(s) ==
    LET nl == {i \in 1..Len(s) : s[i] = "\n"}
        \* the position of the k-th separator; 0 before the first line and
        \* Len(s) + 1 after the last
        sep(k) == IF k = 0 THEN 0
                  ELSE IF k > Cardinality(nl) THEN Len(s) + 1
                  ELSE CHOOSE p \in nl : Cardinality({q \in nl : q <= p}) = k
    IN  [k \in 1..(Cardinality(nl) + 1) |-> SubSeq(s, sep(k - 1) + 1, sep(k) - 1)]

EventPrefix == <<"e", "v", "e", "n", "t", ":">>
DataPrefix == <<"d", "a", "t", "a", ":">>

\* ------------------------------------------------------------ JSON values
\* A parsed JSON value: [t |-> "null"], [t |-> "undef"] (a missing field),
\* [t |-> "str", s |-> chars], [t |-> "num", n |-> Nat],
\* [t |-> "obj", m |-> sequence of <<key, value>>].
JNull == [t |-> "null"]
JUndef == [t |-> "undef"]
JStr(s) == [t |-> "str", s |-> s]
JNum(n) == [t |-> "num", n |-> n]
JObj(m) == [t |-> "obj", m |-> m]

Digits == {"0", "1", "2", "3", "4", "5", "6", "7", "8", "9"}
DigitVal(c) ==
    CASE c = "0" -> 0 [] c = "1" -> 1 [] c = "2" -> 2 [] c = "3" -> 3
      [] c = "4" -> 4 [] c = "5" -> 5 [] c = "6" -> 6 [] c = "7" -> 7
      [] c = "8" -> 8 [] OTHER -> 9

JFail == [ok |-> FALSE, v |-> JUndef, next |-> 0]

\* A string body from position i (after the opening quote) to the closing
\* quote; escapes are outside the modelled fragment of JSON.
RECURSIVE ParseStringBody(_, _, _)
ParseStringBody(s, i, acc) ==
    IF i > Len(s) THEN JFail
    ELSE IF s[i] = "\"" THEN [ok |-> TRUE, v |-> JStr(acc), next |-> i + 1]
    ELSE IF s[i] = "\\" \/ s[i] = "\n" THEN JFail
    ELSE ParseStringBody(s, i + 1, Append(acc, s[i]))

RECURSIVE ParseDigits(_, _, _)
ParseDigits(s, i, acc) ==
    IF i <= Len(s) /\ s[i] \in Digits
    THEN ParseDigits(s, i + 1, 10 * acc + DigitVal(s[i]))
    ELSE [ok |-> TRUE, v |-> JNum(acc), next |-> i]

RECURSIVE ParseValue(_, _)
RECURSIVE ParseMembers(_, _, _)

\* The members of an object from position i (after "{" or after ",").
ParseMembers(s, i, acc) ==
    IF i > Len(s) \/ s[i] # "\"" THEN JFail
    ELSE LET k == ParseStringBody(s, i + 1, <<>>) IN
         IF ~k.ok \/ k.next > Len(s) \/ s[k.next] # ":" THEN JFail
         ELSE LET val == ParseValue(s, k.next + 1) IN
              IF ~val.ok \/ val.next > Len(s) THEN JFail
              ELSE LET acc2 == Append(acc, <<k.v.s, val.v>>) IN
                   IF s[val.next] = "}"
                   THEN [ok |-> TRUE, v |-> JObj(acc2), next |-> val.next + 1]
                   ELSE IF s[val.next] = ","
                   THEN ParseMembers(s, val.next + 1, acc2)
                   ELSE JFail

ParseValue(s, i) ==
    IF i > Len(s) THEN JFail
    ELSE IF s[i] = "\"" THEN ParseStringBody(s, i + 1, <<>>)
    ELSE IF s[i] \in Digits THEN ParseDigits(s, i, 0)
    ELSE IF i + 3 <= Len(s) /\ SubSeq(s, i, i + 3) = <<"n", "u", "l", "l">>
    THEN [ok |-> TRUE, v |-> JNull, next |-> i + 4]
    ELSE IF s[i] = "{"
    THEN IF i + 1 <= Len(s) /\ s[i + 1] = "}"
         THEN [ok |-> TRUE, v |-> JObj(<<>>), next |-> i + 2]
         ELSE ParseMembers(s, i + 1, <<>>)
    ELSE JFail

\* JSON.parse: the whole text must be one value; otherwise it throws.
JSONParse(s) ==
    LET r == ParseValue(s, 1) IN
    IF r.ok /\ r.next = Len(s) + 1 THEN r ELSE JFail

\* Property access data.key on a parsed object (the last duplicate wins).
RECURSIVE FieldOf(_, _, _)
FieldOf(m, key, i) ==
    IF i = 0 THEN JUndef
    ELSE IF m[i][1] = key THEN m[i][2]
    ELSE FieldOf(m, key, i - 1)

Field(v, key) == IF v.t = "obj" THEN FieldOf(v.m, key, Len(v.m)) ELSE JUndef

\* JavaScript truthiness of a value.
Truthy(v) ==
    CASE v.t = "null" -> FALSE
      [] v.t = "undef" -> FALSE
      [] v.t = "str" -> v.s # <<>>
      [] v.t = "num" -> v.n # 0
      [] OTHER -> TRUE

\* Template-literal / string-concatenation conversion of a value to text.
RECURSIVE DecText(_)
DecText(n) ==
    LET d == <<"0", "1", "2", "3", "4", "5", "6", "7", "8", "9">>[(n % 10) + 1] IN
    IF n < 10 THEN <<d>> ELSE Append(DecText(n \div 10), d)

ToText(v) ==
    CASE v.t = "str" -> v.s
      [] v.t = "num" -> DecText(v.n)
      [] v.t = "null" -> <<"n", "u", "l", "l">>
      [] v.t = "undef" -> <<"u", "n", "d", "e", "f", "i", "n", "e", "d">>
      [] OTHER -> <<"[", "o", "b", "j", "e", "c", "t", " ",
                    "O", "b", "j", "e", "c", "t", "]">>

\* ------------------------------------------------------- names on the wire
TOKEN == <<"t", "o", "k", "e", "n">>
TOOL_CALL == <<"t", "o", "o", "l", "_", "c", "a", "l", "l">>
TOOL_RESULT == <<"t", "o", "o", "l", "_", "r", "e", "s", "u", "l", "t">>
DONE == <<"d", "o", "n", "e">>
ERROR == <<"e", "r", "r", "o", "r">>

K_content == <<"c", "o", "n", "t", "e", "n", "t">>
K_name == <<"n", "a", "m", "e">>
K_args == <<"a", "r", "g", "s">>
K_result == <<"r", "e", "s", "u", "l", "t">>
K_message_id == <<"m", "e", "s", "s", "a", "g", "e", "_", "i", "d">>
K_conversation_name ==
    <<"c", "o", "n", "v", "e", "r", "s", "a", "t", "i", "o", "n", "_",
      "n", "a", "m", "e">>
K_detail == <<"d", "e", "t", "a", "i", "l">>

ErrorPrefix == <<"E", "r", "r", "o", "r", ":", " ">>
NetworkErrorDetail ==
    <<"N", "e", "t", "w", "o", "r", "k", " ", "e", "r", "r", "o", "r", ":",
      " ", "f", "a", "i", "l", "e", "d", " ", "t", "o", " ", "c", "o", "n",
      "n", "e", "c", "t">>
RequestFailedDetail ==
    <<"R", "e", "q", "u", "e", "s", "t", " ", "f", "a", "i", "l", "e", "d">>
HttpStatusDetail ==
    <<"H", "T", "T", "P", " ", "5", "0", "0">>
NoBodyDetail ==
    <<"N", "o", " ", "r", "e", "s", "p", "o", "n", "s", "e", " ", "b", "o",
      "d", "y">>
StreamErrorDetail ==
    <<"S", "t", "r", "e", "a", "m", " ", "e", "r", "r", "o", "r", ":", " ",
      "T", "y", "p", "e", "E", "r", "r", "o", "r", ":", " ", "n", "e", "t",
      "w", "o", "r", "k", " ", "e", "r", "r", "o", "r">>
FailedToConnect ==
    <<"F", "a", "i", "l", "e", "d", " ", "t", "o", " ", "c", "o", "n", "n",
      "e", "c", "t", " ", "t", "o", " ", "t", "h", "e", " ", "A", "I", " ",
      "s", "e", "r", "v", "i", "c", "e", ".", " ", "P", "l", "e", "a", "s",
      "e", " ", "t", "r", "y", " ", "a", "g", "a", "i", "n", ".">>

\* ---------------------------------------------------------- message list
\* StreamingMessage; a loaded message has no isStreaming (falsy) and an
\* absent or stored tool list.
HumanMsg(content) ==
    [id |-> NoId, role |-> "human", content |-> content,
     isStreaming |-> FALSE, toolCalls |-> <<>>]

AiPlaceholder ==
    [id |-> NoId, role |-> "ai", content |-> <<>>,
     isStreaming |-> TRUE, toolCalls |-> <<>>]

\* The shared shape of every setMessages updater of handleSendMessage:
\* copy the list and, if its last element has role ai, replace that element.
LastIsAi(msgs) == msgs # <<>> /\ msgs[Len(msgs)].role = "ai"

\* ------------------------------------------------- handleSendMessage callbacks
\* st is the state the callbacks of one exchange read and write:
\*   messages, conversations, clock   (ChatWindow state and the wall clock)
\*   tools                            (currentToolCalls of this invocation)
\*   calls                            (the callbacks invoked, in order)
\* cid is the conversationId captured by the invocation.

\* A variant of onToken that puts the fragment in front of the text.
onToken_Prepend(st, data) ==
    LET m == st.messages
        n == Len(m)
    IN  [st EXCEPT
           !.calls = Append(@, <<"onToken", data>>),
           !.messages =
               IF LastIsAi(m)
               THEN [m EXCEPT ![n].content = ToText(Field(data, K_content)) \o @]
               ELSE m]

onToken(st, data) ==
    LET m == st.messages
        n == Len(m)
    IN  [st EXCEPT
           !.calls = Append(@, <<"onToken", data>>),
           !.messages =
               IF LastIsAi(m)
               THEN [m EXCEPT ![n].content = @ \o ToText(Field(data, K_content))]
               ELSE m]

onToolCall(st, data) ==
    LET tools2 == Append(st.tools,
                         [name |-> Field(data, K_name),
                          args |-> Field(data, K_args),
                          result |-> JNull])
        m == st.messages
        n == Len(m)
    IN  [st EXCEPT
           !.calls = Append(@, <<"onToolCall", data>>),
           !.tools = tools2,
           !.messages =
               IF LastIsAi(m) THEN [m EXCEPT ![n].toolCalls = tools2] ELSE m]

\* currentToolCalls.find((t) => t.name === data.name && !t.result)
FindToolCall(tools, name) ==
    LET hits == {i \in 1..Len(tools) :
                    tools[i].name = name /\ ~Truthy(tools[i].result)}
    IN  IF hits = {} THEN 0
        ELSE CHOOSE i \in hits : \A j \in hits : i <= j

onToolResult(st, data) ==
    LET k == FindToolCall(st.tools, Field(data, K_name))
        tools2 == IF k = 0 THEN st.tools
                  ELSE [st.tools EXCEPT ![k].result = Field(data, K_result)]
        m == st.messages
        n == Len(m)
    IN  [st EXCEPT
           !.calls = Append(@, <<"onToolResult", data>>),
           !.tools = tools2,
           !.messages =
               IF LastIsAi(m) THEN [m EXCEPT ![n].toolCalls = tools2] ELSE m]

\* data.message_id ?? undefined
MessageIdOf(data) ==
    LET v == Field(data, K_message_id) IN
    IF v.t = "num" THEN v.n ELSE NoId

\* A variant that renames every entry of the list.
RenameConversation_All(convs, cid, name, now) ==
    [i \in 1..Len(convs) |->
        [convs[i] EXCEPT !.name = name, !.updated_at = now]]

\* setConversations(prev => prev.map(...)) of onDone, lines 203-211.
RenameConversation(convs, cid, name, now) ==
    [i \in 1..Len(convs) |->
        IF convs[i].id = cid
        THEN [convs[i] EXCEPT !.name = name, !.updated_at = now]
        ELSE convs[i]]

onDone(st, data, cid) ==
    LET m == st.messages
        n == Len(m)
        nm == Field(data, K_conversation_name)
    IN  [st EXCEPT
           !.calls = Append(@, <<"onDone", data>>),
           !.messages =
               IF LastIsAi(m)
               THEN [m EXCEPT ![n].id = MessageIdOf(data),
                              ![n].isStreaming = FALSE]
               ELSE m,
           !.conversations =
               IF Truthy(nm)
               THEN RenameConversation(@, cid, ToText(nm), st.clock + 1)
               ELSE @,
           !.clock = IF Truthy(nm) THEN @ + 1 ELSE @]

\* A variant that keeps the text streamed so far in front of the error text.
ErrorContent_Append(old, detail) == old \o ErrorPrefix \o detail

\* The ai message after onError: content replaced by `Error: ${detail}`.
ErrorContent(old, detail) == ErrorPrefix \o detail

onError(st, data) ==
    LET m == st.messages
        n == Len(m)
    IN  [st EXCEPT
           !.calls = Append(@, <<"onError", data>>),
           !.messages =
               IF LastIsAi(m)
               THEN [m EXCEPT
                       ![n].content =
                           ErrorContent(@, ToText(Field(data, K_detail))),
                       ![n].isStreaming = FALSE]
               ELSE m]

\* The catch block of handleSendMessage (sendMessage rejected).
CatchSend(msgs) ==
    IF LastIsAi(msgs)
    THEN [msgs EXCEPT ![Len(msgs)].content = FailedToConnect,
                      ![Len(msgs)].isStreaming = FALSE]
    ELSE msgs

\* ------------------------------------------------------- dispatchSSEEvent
\* A variant of dispatchSSEEvent that treats an unknown name as a token.
dispatchSSEEvent_UnknownAsToken(st, eventType, eventData, cid) ==
    IF eventType = <<>> \/ eventData = <<>> THEN st
    ELSE LET p == JSONParse(eventData) IN
         IF ~p.ok \/ p.v.t = "null" THEN st
         ELSE CASE eventType = TOOL_CALL -> onToolCall(st, p.v)
                [] eventType = TOOL_RESULT -> onToolResult(st, p.v)
                [] eventType = DONE -> onDone(st, p.v, cid)
                [] eventType = ERROR -> onError(st, p.v)
                [] OTHER -> onToken(st, p.v)

\* A parsed null makes the callback's first property access throw inside the
\* try block, which the catch turns into a warning.
dispatchSSEEvent(st, eventType, eventData, cid) ==
    IF eventType = <<>> \/ eventData = <<>> THEN st
    ELSE LET p == JSONParse(eventData) IN
         IF ~p.ok \/ p.v.t = "null" THEN st
         ELSE CASE eventType = TOKEN -> onToken(st, p.v)
                [] eventType = TOOL_CALL -> onToolCall(st, p.v)
                [] eventType = TOOL_RESULT -> onToolResult(st, p.v)
                [] eventType = DONE -> onDone(st, p.v, cid)
                [] eventType = ERROR -> onError(st, p.v)
                [] OTHER -> st

\* A variant of the call site without its guard.
DispatchIfComplete_Always(st, cid) ==
    dispatchSSEEvent(
        [st EXCEPT !.dispatched = Append(@, <<st.eventType, st.eventData>>)],
        st.eventType, st.eventData, cid)

\* A call site of dispatchSSEEvent: `if (eventType && eventData) dispatch`.
\* dispatched records the (eventType, eventData) pairs handed over.
DispatchIfComplete(st, cid) ==
    IF st.eventType # <<>> /\ st.eventData # <<>>
    THEN dispatchSSEEvent(
             [st EXCEPT !.dispatched = Append(@, <<st.eventType, st.eventData>>)],
             st.eventType, st.eventData, cid)
    ELSE st

\* ------------------------------------------------ the parse loop's line step
ProcessLine(st, rawLine, cid) ==
    LET line == StripCR(rawLine) IN
    IF line = <<>>
    THEN [DispatchIfComplete(st, cid) EXCEPT !.eventType = <<>>, !.eventData = <<>>]
    ELSE IF StartsWith(line, EventPrefix)
    THEN [st EXCEPT !.eventType = Trim(SliceFrom(line, 6))]
    ELSE IF StartsWith(line, DataPrefix)
    THEN [st EXCEPT !.eventData = Trim(SliceFrom(line, 5))]
    ELSE st

RECURSIVE ProcessLines(_, _, _)
ProcessLines(st, lines, cid) ==
    IF lines = <<>> THEN st
    ELSE ProcessLines(ProcessLine(st, Head(lines), cid), Tail(lines), cid)

\* A variant of the read loop that drops the unfinished line of a chunk.
KeepLast_Drop(lines) == <<>>

\* lines.pop() || '': the text kept for the next chunk.
KeepLast(lines) == lines[Len(lines)]

\* One iteration of the read loop on a chunk of text: append to the buffer,
\* split, keep the last fragment, process the complete lines.
ProcessChunk(st, text, cid) ==
    LET lines == Split(st.buffer \o text)
        complete == SubSeq(lines, 1, Len(lines) - 1)
    IN  [ProcessLines(st, complete, cid) EXCEPT !.buffer = KeepLast(lines)]

\* ------------------------------------------------------ what the server sends
\* The wire format: `event: <name>` / `data: <json>` / blank line, with LF or
\* CRLF line ends.
LF == <<"\n">>
CRLF == <<"\r", "\n">>

Q(s) == <<"\"">> \o s \o <<"\"">>
Member(k, v) == Q(k) \o <<":">> \o v

TokenJson(f) == <<"{">> \o Member(K_content, Q(f)) \o <<"}">>
ToolCallJson(n) ==
    <<"{">> \o Member(K_name, Q(n)) \o <<",">>
            \o Member(K_args, <<"{", "}">>) \o <<"}">>
ToolResultJson(n, r) ==
    <<"{">> \o Member(K_name, Q(n)) \o <<",">>
            \o Member(K_result, Q(r)) \o <<"}">>
DoneJson(id, nm) ==
    <<"{">> \o Member(K_message_id, id) \o <<",">>
            \o Member(K_conversation_name, Q(nm)) \o <<"}">>
ErrorJson(d) == <<"{">> \o Member(K_detail, Q(d)) \o <<"}">>

Ev(name, payload) == <<name, payload>>
Frame(e, eol) ==
    EventPrefix \o <<" ">> \o e[1] \o eol
      \o DataPrefix \o <<" ">> \o e[2] \o eol \o eol

RECURSIVE Frames(_, _)
Frames(events, eol) ==
    IF events = <<>> THEN <<>>
    ELSE Frame(Head(events), eol) \o Frames(Tail(events), eol)

\* A stream: its text and the events it carries, in order.
WellFormed(events, eol) ==
    [text |-> Frames(events, eol), events |-> events, wellFormed |-> TRUE]

EvTokA == Ev(TOKEN, TokenJson(<<"H", "e", "l">>))
EvTokB == Ev(TOKEN, TokenJson(<<"l", "o">>))
EvTokX == Ev(TOKEN, TokenJson(<<"x">>))
EvDone7 == Ev(DONE, DoneJson(<<"7">>, <<"T">>))
EvDoneNull == Ev(DONE, DoneJson(<<"n", "u", "l", "l">>, <<>>))
EvErr == Ev(ERROR, ErrorJson(<<"n", "o">>))
EvCallS == Ev(TOOL_CALL, ToolCallJson(<<"s">>))
EvCallT == Ev(TOOL_CALL, ToolCallJson(<<"t">>))
EvResS1 == Ev(TOOL_RESULT, ToolResultJson(<<"s">>, <<"1">>))
EvResS2 == Ev(TOOL_RESULT, ToolResultJson(<<"s">>, <<"2">>))
EvResSEmpty == Ev(TOOL_RESULT, ToolResultJson(<<"s">>, <<>>))
EvResT == Ev(TOOL_RESULT, ToolResultJson(<<"t">>, <<"3">>))
EvResU == Ev(TOOL_RESULT, ToolResultJson(<<"u">>, <<"4">>))

\* Blocks the dispatcher must drop: a payload that is not JSON (an object
\* cut short) and a name that is none of the five.
EvBadJson == Ev(TOKEN, <<"{">> \o Member(K_content, Q(<<"x">>)))
EvUnknown == Ev(<<"p", "i", "n", "g">>, TokenJson(<<"x">>))

\* Blocks that carry no event: a data: line with nothing after it and no
\* event: line, a data: line of blanks, a payload with no event: line, a
\* comment line, an event: line with no data: line, and an empty name.
KeepAliveText ==
    DataPrefix \o LF \o LF
      \o EventPrefix \o <<" ">> \o TOKEN \o LF
      \o DataPrefix \o <<" ", " ">> \o LF \o LF
      \o DataPrefix \o <<" ">> \o TokenJson(<<"x">>) \o LF \o LF
      \o <<":", "k", "a">> \o LF \o LF
      \o EventPrefix \o <<" ">> \o TOKEN \o LF \o LF
      \o EventPrefix \o LF \o DataPrefix \o <<" ">> \o TokenJson(<<"x">>)
      \o LF \o LF

\* A last frame without its blank line: the data: line ends with a line
\* end and the stream stops there.
Unterminated(e, eol) ==
    EventPrefix \o <<" ">> \o e[1] \o eol
      \o DataPrefix \o <<" ">> \o e[2] \o eol

\* A last frame whose data: line is not followed by a line end.
NoFinalNewline(e, eol) ==
    EventPrefix \o <<" ">> \o e[1] \o eol \o DataPrefix \o <<" ">> \o e[2]

\* A stream given by its text and the events it is to dispatch.
Raw(text, events) == [text |-> text, events |-> events, wellFormed |-> FALSE]

\* A correctly framed stream that carries such blocks.
Framed(events, eol) ==
    [text |-> Frames(events, eol), events |-> events, wellFormed |-> FALSE]

Streams ==
    << WellFormed(<<EvTokX, EvDone7>>, LF),
       WellFormed(<<EvTokX>>, LF),
       WellFormed(<<EvTokX, EvErr>>, LF),
       WellFormed(<<EvTokA, EvTokB, EvDoneNull>>, LF),
       WellFormed(<<EvTokA, EvTokB, EvDone7>>, CRLF),
       WellFormed(<<EvDone7, EvTokX>>, LF),
       WellFormed(<<EvTokA, EvErr, EvTokB, EvDone7>>, LF),
       WellFormed(<<EvCallS, EvCallT, EvCallS, EvResU, EvResS1, EvResT,
                    EvResS2, EvDone7>>, LF),
       WellFormed(<<EvCallS, EvCallS, EvResSEmpty, EvResS1, EvDone7>>, LF),
       Framed(<<EvTokA, EvBadJson, EvUnknown, EvTokB, EvDone7>>, LF),
       Raw(KeepAliveText \o Frames(<<EvTokA, EvDone7>>, LF),
           <<EvTokA, EvDone7>>),
       Raw(Frame(EvTokA, LF) \o Unterminated(EvTokB, LF), <<EvTokA, EvTokB>>),
       \* the last line never leaves the line buffer (lines.pop(), line 159)
       Raw(Frame(EvTokA, LF) \o NoFinalNewline(EvTokB, LF), <<EvTokA>>) >>

\* The streams of the window specification (the first three of Streams) and
\* of the single-exchange specification (all of them).
SmallStreams == {1, 2, 3}
AllStreams == 1..Len(Streams)

\* Bodies of a non-2xx response: not JSON, an object with a detail, an object
\* without one, and the JSON literal null.
ErrorBodies ==
    { <<"<", "h", "t", "m", "l", ">">>,
      ErrorJson(<<"n", "o">>),
      <<"{", "}">>,
      <<"n", "u", "l", "l">> }

\* handleSendMessage's argument: a message and a blank text.
Contents == { <<"h", "i">>, <<" ">> }

\* The conversations the server holds at the start.
InitConvs == {1}

\* What GET /conversations/{id} returns for a stored conversation.
ServerMessages(id) ==
    << [id |-> 10 * id + 1, role |-> "human", content |-> <<"q">>,
        isStreaming |-> FALSE, toolCalls |-> <<>>],
       [id |-> 10 * id + 2, role |-> "ai", content |-> <<"a">>,
        isStreaming |-> FALSE, toolCalls |-> <<>>] >>

ServerConv(id, now) ==
    [id |-> id, name |-> IF id \in InitConvs THEN <<"o", "l", "d">> ELSE <<>>,
     updated_at |-> now]

RECURSIVE ListOf(_)
ListOf(ids) ==
    IF ids = {} THEN <<>>
    ELSE LET m == CHOOSE i \in ids : \A j \in ids : j <= i IN
         <<ServerConv(m, 0)>> \o ListOf(ids \ {m})

\* ------------------------------------------------------------------- state
VARIABLES
    conversations,          \* ChatWindow: useState<Conversation[]>
    activeConversationId,   \* ChatWindow: number | null (NoId)
    messages,               \* ChatWindow: useState<StreamingMessage[]>
    isStreaming,            \* ChatWindow: the window's streaming flag
    sends,                  \* the invocations of handleSendMessage, in order
    listPc,                 \* loadConversations: "loading" | "done"
    loads,                  \* loadMessages calls awaiting getConversation
    creating,               \* handleNewConversation calls awaiting create
    deleting,               \* handleDeleteConversation calls awaiting delete
    srvConvs,               \* ids of the conversations the server holds
    srvNext,                \* the id the server gives the next conversation
    clock,                  \* the wall clock (a fresh value per reading)
    nOps                    \* sidebar operations so far

\* ChatInput and the speech-recognition sessions it has created.
VARIABLES
    input,                  \* ChatInput: useState('') (the input buffer)
    isRecording,            \* ChatInput: capturing or idle
    interimTranscript,      \* ChatInput: useState('')
    finalTranscript,        \* ChatInput: useState('')
    recognitionRef,         \* the session the controller holds, or NoSession
    preRecordingInputRef,   \* the buffer as it was when the capture started
    disabled,               \* the prop ChatWindow passes (its isStreaming)
    mounted,                \* whether the component is still mounted
    sessions,               \* every SpeechRecognition object created
    sent,                   \* how many texts were handed to onSend
    captureStart,           \* history: the buffer when isRecording became true
    last                    \* history: what the last step of ChatInput was

\* The module state of services/api.ts and the requests made through it.
VARIABLES
    isRefreshing,           \* api.ts: let isRefreshing
    failedQueue,            \* api.ts: let failedQueue (the waiting requests)
    requests,               \* the requests made through the axios instance
    tokens,                 \* localStorage: whether a token pair is stored
    page                    \* the document: "app" | "leaving" | "login"

authVars == <<isRefreshing, failedQueue, requests, tokens, page>>

voiceVars == <<input, isRecording, interimTranscript, finalTranscript,
               recognitionRef, preRecordingInputRef, disabled, mounted,
               sessions, sent, captureStart, last>>

windowVars == <<conversations, activeConversationId, messages, isStreaming>>
asyncVars == <<listPc, loads, creating, deleting, nOps>>
serverVars == <<srvConvs, srvNext>>
chatVars == <<conversations, activeConversationId, messages, isStreaming,
              sends, listPc, loads, creating, deleting, srvConvs, srvNext,
              clock, nOps>>
vars == <<conversations, activeConversationId, messages, isStreaming, sends,
          listPc, loads, creating, deleting, srvConvs, srvNext, clock, nOps,
          input, isRecording, interimTranscript, finalTranscript,
          recognitionRef, preRecordingInputRef, disabled, mounted,
          sessions, sent, captureStart, last,
          isRefreshing, failedQueue, requests, tokens, page>>

\* recognitionRef.current === null
NoSession == 0

\* The handler or provider event of the last step; for a provider end event
\* also the session that ended, the session start() was called on
\* (NoSession when it was not called) and whether that call threw.
Did(op) ==
    [op |-> op, ended |-> NoSession, started |-> NoSession, threw |-> FALSE]

\* One invocation of handleSendMessage and of the sendMessage it awaits.
\* An invocation the guard on line 102 turns away returns at once and leaves
\* nothing behind; the others are recorded here.
\*   pc: "creating" (awaiting createConversation), "fetching" (awaiting
\*       fetch), "reading" (awaiting reader.read()), "returned"
\*   wire, pos: the stream the server sends and how much of it was read
\*   buffer, eventType, eventData: the locals of the parse loop
\*   tools: currentToolCalls
\*   exit: which return ended the invocation ("createfail",
\*       "fetchfail", "notok", "nobody", "end", "readfail"); threw: whether
\*       sendMessage rejected instead of returning
\*   dispatched, calls: the pairs handed to dispatchSSEEvent and the
\*       callbacks invoked, in order; reads: whether reader.read() was called
NewSend(pc, content, cid) ==
    [pc |-> pc, content |-> content, conversationId |-> cid,
     wire |-> 0, pos |-> 0,
     buffer |-> <<>>, eventType |-> <<>>, eventData |-> <<>>,
     tools |-> <<>>, dispatched |-> <<>>, calls |-> <<>>, reads |-> FALSE,
     exit |-> "", threw |-> FALSE]

\* api.ts as loaded: lines 55-59; stored says whether localStorage holds a
\* token pair.
AuthStart(stored) ==
    /\ isRefreshing = FALSE
    /\ failedQueue = <<>>
    /\ requests = [r \in 1..MaxRequests |-> [pc |-> "idle", retry |-> FALSE]]
    /\ tokens = stored
    /\ page = "app"

Init ==
    /\ conversations = <<>>
    /\ activeConversationId = NoId
    /\ messages = <<>>
    /\ isStreaming = FALSE
    /\ sends = <<>>
    /\ listPc = "loading"
    /\ loads = <<>>
    /\ creating = 0
    /\ deleting = {}
    /\ srvConvs = InitConvs
    /\ srvNext = Cardinality(InitConvs) + 1
    /\ clock = 0
    /\ nOps = 0
    /\ input = <<>>
    /\ isRecording = FALSE
    /\ interimTranscript = <<>>
    /\ finalTranscript = <<>>
    /\ recognitionRef = NoSession
    /\ preRecordingInputRef = <<>>
    /\ disabled = FALSE
    /\ mounted = TRUE
    /\ sessions = <<>>
    /\ sent = 0
    /\ captureStart = <<>>
    /\ last = Did("mount")
    /\ AuthStart(TRUE)

\* The exchange-local view handed to the callbacks, and its write-back.
StOf(i) ==
    [messages |-> messages, conversations |-> conversations, clock |-> clock,
     tools |-> sends[i].tools, buffer |-> sends[i].buffer,
     eventType |-> sends[i].eventType, eventData |-> sends[i].eventData,
     dispatched |-> sends[i].dispatched, calls |-> sends[i].calls]

Commit(i, st, exit, pos, reads) ==
    /\ messages' = st.messages
    /\ conversations' = st.conversations
    /\ clock' = st.clock
    /\ sends' = [sends EXCEPT ![i] =
                    [@ EXCEPT !.pc = IF exit = "" THEN "reading" ELSE "returned",
                              !.exit = exit, !.pos = pos, !.reads = reads,
                              !.tools = st.tools, !.buffer = st.buffer,
                              !.eventType = st.eventType,
                              !.eventData = st.eventData,
                              !.dispatched = st.dispatched,
                              !.calls = st.calls]]

\* ------------------------------------------------------ loadConversations
ListLoaded ==
    /\ listPc = "loading"
    /\ listPc' = "done"
    /\ conversations' = ListOf(srvConvs)
    /\ UNCHANGED <<activeConversationId, messages, isStreaming, sends, loads,
                   creating, deleting, srvConvs, srvNext, clock, nOps>>

ListFails ==
    /\ listPc = "loading"
    /\ listPc' = "done"
    /\ UNCHANGED <<windowVars, sends, loads, creating, deleting, serverVars,
                   clock, nOps>>

\* ------------------------------------------------------ handleSendMessage
\* The guard `!content.trim() || isStreaming`.
SendGuardRejects(content) == Trim(content) = <<>> \/ isStreaming

\* A variant that appends the placeholder before the human message.
AppendExchangeMessages_Swapped(msgs, content) ==
    msgs \o <<AiPlaceholder, HumanMsg(content)>>

\* Lines 118-133: the human message, the placeholder, setIsStreaming(true).
AppendExchangeMessages(msgs, content) ==
    msgs \o <<HumanMsg(content), AiPlaceholder>>

\* The invocations that have passed the guard and not yet returned.
Unfinished == {i \in 1..Len(sends) : sends[i].pc \in {"creating", "fetching", "reading"}}

SendInvoke(content) ==
    /\ Len(sends) < MaxSends
    /\ IF SendGuardRejects(content)
       THEN UNCHANGED vars
       ELSE IF activeConversationId = NoId
       THEN /\ sends' = Append(sends, NewSend("creating", content, NoId))
            /\ UNCHANGED <<windowVars, asyncVars, serverVars, clock>>
       ELSE /\ sends' = Append(sends,
                  NewSend("fetching", content, activeConversationId))
            /\ messages' = AppendExchangeMessages(messages, content)
            /\ isStreaming' = TRUE
            /\ UNCHANGED <<conversations, activeConversationId, asyncVars,
                           serverVars, clock>>

\* createConversation resolved: lines 110-133.
SendCreated(i) ==
    /\ sends[i].pc = "creating"
    /\ LET conv == ServerConv(srvNext, clock + 1) IN
       /\ conversations' = <<conv>> \o conversations
       /\ activeConversationId' = conv.id
       /\ messages' = AppendExchangeMessages(messages, sends[i].content)
       /\ isStreaming' = TRUE
       /\ sends' = [sends EXCEPT ![i].pc = "fetching",
                                 ![i].conversationId = conv.id]
       /\ srvConvs' = srvConvs \cup {conv.id}
       /\ srvNext' = srvNext + 1
       /\ clock' = clock + 1
    /\ UNCHANGED asyncVars

\* createConversation rejected: `catch { return; }`, before the try/finally.
SendCreateFails(i) ==
    /\ sends[i].pc = "creating"
    /\ sends' = [sends EXCEPT ![i].pc = "returned", ![i].exit = "createfail"]
    /\ UNCHANGED <<windowVars, asyncVars, serverVars, clock>>

\* ------------------------------------------------- chatService.sendMessage
\* Every return of sendMessage resumes handleSendMessage, whose finally block
\* runs setIsStreaming(false) in the same turn.

\* fetch rejected: lines 108-112.
FetchFails(i) ==
    /\ sends[i].pc = "fetching"
    /\ Commit(i, onError(StOf(i), JObj(<<<<K_detail, JStr(NetworkErrorDetail)>>>>)),
              "fetchfail", 0, FALSE)
    /\ isStreaming' = FALSE
    /\ UNCHANGED <<activeConversationId, asyncVars, serverVars>>

\* error.detail || `HTTP ${response.status}`
HttpErrorDetail(error) ==
    IF Truthy(Field(error, K_detail)) THEN Field(error, K_detail)
    ELSE JStr(HttpStatusDetail)

\* !response.ok: lines 116-121. response.json() rejecting yields the
\* 'Request failed' object; a body that parses to null makes error.detail
\* throw, sendMessage rejects and handleSendMessage's catch block runs.
FetchNotOk(i, body) ==
    /\ sends[i].pc = "fetching"
    /\ LET p == JSONParse(body)
           error == IF p.ok THEN p.v
                    ELSE JObj(<<<<K_detail, JStr(RequestFailedDetail)>>>>)
       IN  IF error.t = "null"
           THEN /\ messages' = CatchSend(messages)
                /\ sends' = [sends EXCEPT ![i].pc = "returned",
                                          ![i].exit = "notok",
                                          ![i].threw = TRUE]
                /\ UNCHANGED <<conversations, clock>>
           ELSE Commit(i, onError(StOf(i),
                           JObj(<<<<K_detail, HttpErrorDetail(error)>>>>)),
                       "notok", 0, FALSE)
    /\ isStreaming' = FALSE
    /\ UNCHANGED <<activeConversationId, asyncVars, serverVars>>

\* response.body has no reader: lines 123-128.
FetchNoBody(i) ==
    /\ sends[i].pc = "fetching"
    /\ Commit(i, onError(StOf(i), JObj(<<<<K_detail, JStr(NoBodyDetail)>>>>)),
              "nobody", 0, FALSE)
    /\ isStreaming' = FALSE
    /\ UNCHANGED <<activeConversationId, asyncVars, serverVars>>

\* A 2xx response with a body: the server will send stream w.
FetchOk(i, w) ==
    /\ sends[i].pc = "fetching"
    /\ sends' = [sends EXCEPT ![i].pc = "reading", ![i].wire = w]
    /\ UNCHANGED <<windowVars, asyncVars, serverVars, clock>>

Remaining(i) == Len(Streams[sends[i].wire].text) - sends[i].pos

\* reader.read() resolved with a chunk of n characters: lines 148-176.
ReadChunk(i, n) ==
    /\ sends[i].pc = "reading"
    /\ n \in 1..Remaining(i)
    /\ LET text == SubSeq(Streams[sends[i].wire].text,
                          sends[i].pos + 1, sends[i].pos + n)
       IN  Commit(i, ProcessChunk(StOf(i), text, sends[i].conversationId),
                  "", sends[i].pos + n, TRUE)
    /\ UNCHANGED <<activeConversationId, isStreaming, asyncVars, serverVars>>

\* A variant of the end of the stream without the final flush.
ReadEnd_NoFlush(i) ==
    /\ sends[i].pc = "reading"
    /\ Remaining(i) = 0
    /\ Commit(i, StOf(i), "end", sends[i].pos, TRUE)
    /\ isStreaming' = FALSE
    /\ UNCHANGED <<activeConversationId, asyncVars, serverVars>>

\* reader.read() resolved with done: lines 139-146, then the return.
ReadEnd(i) ==
    /\ sends[i].pc = "reading"
    /\ Remaining(i) = 0
    /\ Commit(i, DispatchIfComplete(StOf(i), sends[i].conversationId),
              "end", sends[i].pos, TRUE)
    /\ isStreaming' = FALSE
    /\ UNCHANGED <<activeConversationId, asyncVars, serverVars>>

\* reader.read() rejected (the connection dropped): lines 178-183.
ReadFails(i) ==
    /\ sends[i].pc = "reading"
    /\ Commit(i, onError(StOf(i), JObj(<<<<K_detail, JStr(StreamErrorDetail)>>>>)),
              "readfail", sends[i].pos, TRUE)
    /\ isStreaming' = FALSE
    /\ UNCHANGED <<activeConversationId, asyncVars, serverVars>>

\* --------------------------------------------------------- sidebar handlers
\* handleSelectConversation: lines 71-75.
SelectConversation(id) ==
    /\ nOps < MaxOps
    /\ \E k \in 1..Len(conversations) : conversations[k].id = id
    /\ id # activeConversationId
    /\ activeConversationId' = id
    /\ loads' = Append(loads, id)
    /\ nOps' = nOps + 1
    /\ UNCHANGED <<conversations, messages, isStreaming, sends, listPc,
                   creating, deleting, serverVars, clock>>

\* loadMessages: getConversation resolved (line 56), for any pending call.
LoadResolves(k) ==
    /\ k \in 1..Len(loads)
    /\ loads[k] \in srvConvs
    /\ messages' = ServerMessages(loads[k])
    /\ loads' = [j \in 1..(Len(loads) - 1) |-> IF j < k THEN loads[j] ELSE loads[j + 1]]
    /\ UNCHANGED <<conversations, activeConversationId, isStreaming, sends,
                   listPc, creating, deleting, serverVars, clock, nOps>>

LoadFails(k) ==
    /\ k \in 1..Len(loads)
    /\ loads' = [j \in 1..(Len(loads) - 1) |-> IF j < k THEN loads[j] ELSE loads[j + 1]]
    /\ UNCHANGED <<windowVars, sends, listPc, creating, deleting, serverVars,
                   clock, nOps>>

\* handleNewConversation: lines 77-86.
NewConversation ==
    /\ nOps < MaxOps
    /\ creating' = creating + 1
    /\ nOps' = nOps + 1
    /\ UNCHANGED <<windowVars, sends, listPc, loads, deleting, serverVars, clock>>

NewConversationCreated ==
    /\ creating > 0
    /\ creating' = creating - 1
    /\ LET conv == ServerConv(srvNext, clock + 1) IN
       /\ conversations' = <<conv>> \o conversations
       /\ activeConversationId' = conv.id
       /\ messages' = <<>>
       /\ srvConvs' = srvConvs \cup {conv.id}
       /\ srvNext' = srvNext + 1
       /\ clock' = clock + 1
    /\ UNCHANGED <<isStreaming, sends, listPc, loads, deleting, nOps>>

NewConversationFails ==
    /\ creating > 0
    /\ creating' = creating - 1
    /\ UNCHANGED <<windowVars, sends, listPc, loads, deleting, serverVars,
                   clock, nOps>>

\* handleDeleteConversation: lines 88-99. The comparison on line 92 reads the
\* activeConversationId of the render in which the handler was created.
DeleteConversation(id) ==
    /\ nOps < MaxOps
    /\ \E k \in 1..Len(conversations) : conversations[k].id = id
    /\ deleting' = deleting \cup {[id |-> id, active |-> activeConversationId]}
    /\ nOps' = nOps + 1
    /\ UNCHANGED <<windowVars, sends, listPc, loads, creating, serverVars, clock>>

RemoveConversation(convs, id) == SelectSeq(convs, LAMBDA c : c.id # id)

DeleteResolves(d) ==
    /\ d \in deleting
    /\ deleting' = deleting \ {d}
    /\ srvConvs' = srvConvs \ {d.id}
    /\ conversations' = RemoveConversation(conversations, d.id)
    /\ IF d.active = d.id
       THEN activeConversationId' = NoId /\ messages' = <<>>
       ELSE UNCHANGED <<activeConversationId, messages>>
    /\ UNCHANGED <<isStreaming, sends, listPc, loads, creating, srvNext,
                   clock, nOps>>

DeleteFails(d) ==
    /\ d \in deleting
    /\ deleting' = deleting \ {d}
    /\ UNCHANGED <<windowVars, sends, listPc, loads, creating, serverVars,
                   clock, nOps>>

\* ------------------------------------------------------------- ChatInput
\* The component is modelled with its state as React holds it between
\* events: every handler runs against the state of the latest render.
\* new SpeechRecognition() followed by start() cannot throw (the object was
\* never started), so startRecording always reaches setIsRecording(true).

\* What the user can type and what the recognizer can hear: the first
\* phrase is heard as x or as y (a revision), the later ones as z.
Typed == { <<>>, <<"a">> }
Transcripts == { <<"x">>, <<"y">>, <<"z">> }
HeardAt(k) == IF k = 1 THEN { <<"x">>, <<"y">> } ELSE { <<"z">> }

\* event.results: results flagged final first, then the interim ones.
ResultLists ==
    {q \in UNION {[1..n -> [transcript : Transcripts, isFinal : BOOLEAN]] :
                     n \in 1..MaxResults} :
        /\ \A k \in 1..Len(q) : q[k].transcript \in HeardAt(k)
        /\ \A k \in 1..(Len(q) - 1) : q[k + 1].isFinal => q[k].isFinal}

\* The result lists a session may deliver after list r: the same list again,
\* or one in which the results already final are kept, the interim ones may
\* be revised or become final, and at most one result is added.
NextResults(r) ==
    {q \in ResultLists :
        /\ Len(r) <= Len(q) /\ Len(q) <= Len(r) + 1
        /\ \A k \in 1..Len(r) : r[k].isFinal => q[k] = r[k]}

\* The loop of lines 68-77.
RECURSIVE FinalOf(_)
FinalOf(results) ==
    IF results = <<>> THEN <<>>
    ELSE (IF Head(results).isFinal THEN Head(results).transcript ELSE <<>>)
         \o FinalOf(Tail(results))

RECURSIVE InterimOf(_)
InterimOf(results) ==
    IF results = <<>> THEN <<>>
    ELSE (IF Head(results).isFinal THEN <<>> ELSE Head(results).transcript)
         \o InterimOf(Tail(results))

\* A variant that appends the event's text to the buffer it finds.
Combined_Append(pre, final, interim) == input \o final \o interim

\* Lines 81-83.
Combined(pre, final, interim) ==
    IF pre # <<>> THEN pre \o <<" ">> \o final \o interim
    ELSE final \o interim

\* A variant in which the idle controls exist during a capture too.
CanEdit_Always == mounted

\* The idle branch of the render (line 164 false): the textarea with
\* onChange and onKeyDown and the send button exist; in the recording branch
\* the textarea is readOnly and has neither handler.
CanEdit == mounted /\ ~isRecording

\* onChange of the idle textarea (line 216; the textarea is disabled with
\* the prop).
TypeInput(v) ==
    /\ CanEdit /\ ~disabled
    /\ v # input
    /\ input' = v
    /\ last' = Did("type")
    /\ UNCHANGED <<isRecording, interimTranscript, finalTranscript,
                   recognitionRef, preRecordingInputRef, disabled, mounted,
                   sessions, sent, captureStart, chatVars, authVars>>

\* handleSend, from the send button or Enter: lines 36-51.
HandleSend ==
    /\ CanEdit
    /\ sent < MaxInputSends
    /\ Trim(input) # <<>> /\ ~disabled
    /\ sent' = sent + 1
    /\ input' = <<>>
    /\ last' = Did("send")
    /\ UNCHANGED <<isRecording, interimTranscript, finalTranscript,
                   recognitionRef, preRecordingInputRef, disabled, mounted,
                   sessions, captureStart, chatVars, authVars>>

\* ChatWindow re-renders ChatInput with disabled = isStreaming.
SetDisabled(b) ==
    /\ mounted /\ b # disabled
    /\ disabled' = b
    /\ last' = Did("disabled")
    /\ UNCHANGED <<input, isRecording, interimTranscript, finalTranscript,
                   recognitionRef, preRecordingInputRef, mounted, sessions,
                   sent, captureStart, chatVars, authVars>>

\* startRecording: lines 53-107 (the microphone button, disabled with the
\* prop, exists in the idle branch only).
StartRecording ==
    /\ CanEdit /\ ~disabled
    /\ Len(sessions) < MaxSessions
    /\ Len(input) <= MaxPreCapture
    /\ sessions' = Append(sessions,
                          [state |-> "running", onend |-> TRUE,
                           results |-> <<>>, error |-> ""])
    /\ recognitionRef' = Len(sessions) + 1
    /\ preRecordingInputRef' = input
    /\ captureStart' = input
    /\ finalTranscript' = <<>>
    /\ interimTranscript' = <<>>
    /\ isRecording' = TRUE
    /\ last' = Did("start")
    /\ UNCHANGED <<input, disabled, mounted, sent, chatVars, authVars>>

\* recognition.onresult, lines 67-85; the handler is never detached, and a
\* session that was told to stop still delivers the result of the audio it
\* has captured ("stopping"; "closing" once that result was delivered).
\* State setters of an unmounted component do nothing.
ProviderResult(s, list) ==
    /\ sessions[s].state \in {"running", "stopping"}
    /\ list \in NextResults(sessions[s].results)
    /\ sessions' = [sessions EXCEPT ![s] =
                       IF @.state = "stopping"
                       THEN [@ EXCEPT !.state = "closing", !.results = <<>>]
                       ELSE [@ EXCEPT !.results = list]]
    /\ IF mounted
       THEN /\ finalTranscript' = FinalOf(list)
            /\ interimTranscript' = InterimOf(list)
            /\ input' = Combined(preRecordingInputRef, FinalOf(list),
                                 InterimOf(list))
       ELSE UNCHANGED <<finalTranscript, interimTranscript, input>>
    /\ last' = Did("result")
    /\ UNCHANGED <<isRecording, recognitionRef, preRecordingInputRef,
                   disabled, mounted, sent, captureStart, chatVars, authVars>>

\* recognition.onerror, lines 98-102: nothing but a log line; the provider
\* ends the session afterwards.
ProviderErrors == {"no-speech", "network"}

\* A variant whose handler ends the capture on an error other than no-speech.
ProviderError_Stops(s, kind) ==
    /\ sessions[s].state = "running"
    /\ sessions' = [sessions EXCEPT ![s].state = "failed", ![s].error = kind,
                                     ![s].results = <<>>]
    /\ isRecording' = IF kind = "no-speech" THEN isRecording ELSE FALSE
    /\ last' = Did("error")
    /\ UNCHANGED <<input, interimTranscript, finalTranscript,
                   recognitionRef, preRecordingInputRef, disabled, mounted,
                   sent, captureStart, chatVars, authVars>>

ProviderError(s, kind) ==
    /\ sessions[s].state = "running"
    /\ sessions' = [sessions EXCEPT ![s].state = "failed", ![s].error = kind,
                                     ![s].results = <<>>]
    /\ last' = Did("error")
    /\ UNCHANGED <<input, isRecording, interimTranscript, finalTranscript,
                   recognitionRef, preRecordingInputRef, disabled, mounted,
                   sent, captureStart, chatVars, authVars>>

\* A variant of the end event whose handler never restarts the session.
ProviderEnd_NoRestart(s, throws) ==
    /\ sessions[s].state \in {"running", "stopping", "closing", "failed"}
    /\ ~throws
    /\ sessions' = [sessions EXCEPT ![s].state = "ended",
                                    ![s].results = <<>>, ![s].error = ""]
    /\ last' = [Did("end") EXCEPT !.ended = s]
    /\ UNCHANGED <<input, isRecording, interimTranscript, finalTranscript,
                   recognitionRef, preRecordingInputRef, disabled, mounted,
                   sent, captureStart, chatVars, authVars>>

\* recognition.onend, lines 87-96, run when the provider ends session s:
\* if a handler is attached and the controller holds a session, start() is
\* called on the held session; it throws when that session is not at rest,
\* or when the provider refuses, and the throw is swallowed.
ProviderEnd(s, throws) ==
    /\ sessions[s].state \in {"running", "stopping", "closing", "failed"}
    /\ LET ended == [sessions EXCEPT ![s].state = "ended",
                                     ![s].results = <<>>, ![s].error = ""]
           t == recognitionRef
       IN  IF sessions[s].onend /\ recognitionRef # NoSession
           THEN /\ sessions' =
                     IF throws \/ ended[t].state # "ended" THEN ended
                     ELSE [ended EXCEPT ![t].state = "running"]
                /\ last' = [op |-> "end", ended |-> s, started |-> t,
                            threw |-> throws \/ ended[t].state # "ended"]
           ELSE /\ ~throws
                /\ sessions' = ended
                /\ last' = [Did("end") EXCEPT !.ended = s]
    /\ UNCHANGED <<input, isRecording, interimTranscript, finalTranscript,
                   recognitionRef, preRecordingInputRef, disabled, mounted,
                   sent, captureStart, chatVars, authVars>>

\* stop() on a session: one that runs delivers its last result and ends,
\* one that failed just ends, one that has ended stays as it is.
Stopped(state) ==
    CASE state = "running" -> "stopping"
      [] state = "failed" -> "closing"
      [] OTHER -> state

\* A variant that calls stop() with the reference and the handler in place.
ReleaseSession_StopOnly(ref, ss) ==
    IF ref = NoSession THEN [ref |-> ref, sessions |-> ss]
    ELSE [ref |-> ref,
          sessions |-> [ss EXCEPT ![ref].state = Stopped(@)]]

\* Lines 110-115 (and 136-141): the reference is cleared, the end handler
\* detached, and only then stop() is called on the session.
ReleaseSession(ref, ss) ==
    IF ref = NoSession THEN [ref |-> ref, sessions |-> ss]
    ELSE [ref |-> NoSession,
          sessions |-> [ss EXCEPT ![ref].onend = FALSE,
                                  ![ref].state = Stopped(@)]]

\* stopRecording: lines 109-119.
StopRecording ==
    /\ recognitionRef' = ReleaseSession(recognitionRef, sessions).ref
    /\ sessions' = ReleaseSession(recognitionRef, sessions).sessions
    /\ isRecording' = FALSE
    /\ interimTranscript' = <<>>
    /\ finalTranscript' = <<>>

\* A variant of confirm that drops the transcript as cancel does.
ConfirmRecording_Restore ==
    /\ mounted /\ isRecording
    /\ input' = preRecordingInputRef
    /\ StopRecording
    /\ last' = Did("confirm")
    /\ UNCHANGED <<preRecordingInputRef, disabled, mounted, sent,
                   captureStart, chatVars, authVars>>

\* confirmRecording: lines 121-125 (the button of the recording branch).
ConfirmRecording ==
    /\ mounted /\ isRecording
    /\ StopRecording
    /\ last' = Did("confirm")
    /\ UNCHANGED <<input, preRecordingInputRef, disabled, mounted, sent,
                   captureStart, chatVars, authVars>>

\* A variant of cancel that keeps the buffer as it is.
RestoredInput_Keep(pre, cur) == cur

\* setInput(preRecordingInputRef.current), line 129.
RestoredInput(pre, cur) == pre

\* cancelRecording: lines 127-131.
CancelRecording ==
    /\ mounted /\ isRecording
    /\ input' = RestoredInput(preRecordingInputRef, input)
    /\ StopRecording
    /\ last' = Did("cancel")
    /\ UNCHANGED <<preRecordingInputRef, disabled, mounted, sent,
                   captureStart, chatVars, authVars>>

\* The cleanup of the unmount effect: lines 133-143.
Unmount ==
    /\ mounted
    /\ mounted' = FALSE
    /\ recognitionRef' = ReleaseSession(recognitionRef, sessions).ref
    /\ sessions' = ReleaseSession(recognitionRef, sessions).sessions
    /\ last' = Did("unmount")
    /\ UNCHANGED <<input, isRecording, interimTranscript, finalTranscript,
                   preRecordingInputRef, disabled, sent, captureStart,
                   chatVars, authVars>>

\* ---------------------------------------------------------- specifications
\* Chunk sizes of the window specification: a fixed size, or all that is left.
CoarseChunk == 40
\* Chunk sizes of the single-exchange specification: 1..MaxChunk, or all
\* that is left.
MaxChunk == 6

Next ==
    \/ ListLoaded /\ UNCHANGED <<voiceVars, authVars>>
    \/ ListFails /\ UNCHANGED <<voiceVars, authVars>>
    \/ \E c \in Contents : SendInvoke(c) /\ UNCHANGED <<voiceVars, authVars>>
    \/ \E i \in 1..Len(sends) : SendCreated(i) /\ UNCHANGED <<voiceVars, authVars>>
    \/ \E i \in 1..Len(sends) : SendCreateFails(i) /\ UNCHANGED <<voiceVars, authVars>>
    \/ \E i \in 1..Len(sends) : FetchFails(i) /\ UNCHANGED <<voiceVars, authVars>>
    \/ \E i \in 1..Len(sends) : \E b \in ErrorBodies : FetchNotOk(i, b) /\ UNCHANGED <<voiceVars, authVars>>
    \/ \E i \in 1..Len(sends) : FetchNoBody(i) /\ UNCHANGED <<voiceVars, authVars>>
    \/ \E i \in 1..Len(sends) : \E w \in SmallStreams : FetchOk(i, w) /\ UNCHANGED <<voiceVars, authVars>>
    \/ \E i \in 1..Len(sends) :
          \E n \in {CoarseChunk, IF sends[i].wire = 0 THEN 0 ELSE Remaining(i)} :
             ReadChunk(i, n) /\ UNCHANGED <<voiceVars, authVars>>
    \/ \E i \in 1..Len(sends) : ReadEnd(i) /\ UNCHANGED <<voiceVars, authVars>>
    \/ \E i \in 1..Len(sends) : ReadFails(i) /\ UNCHANGED <<voiceVars, authVars>>
    \/ \E id \in 1..(srvNext - 1) : SelectConversation(id) /\ UNCHANGED <<voiceVars, authVars>>
    \/ \E k \in 1..Len(loads) : LoadResolves(k) /\ UNCHANGED <<voiceVars, authVars>>
    \/ \E k \in 1..Len(loads) : LoadFails(k) /\ UNCHANGED <<voiceVars, authVars>>
    \/ NewConversation /\ UNCHANGED <<voiceVars, authVars>>
    \/ NewConversationCreated /\ UNCHANGED <<voiceVars, authVars>>
    \/ NewConversationFails /\ UNCHANGED <<voiceVars, authVars>>
    \/ \E id \in 1..(srvNext - 1) : DeleteConversation(id) /\ UNCHANGED <<voiceVars, authVars>>
    \/ \E d \in deleting : DeleteResolves(d) /\ UNCHANGED <<voiceVars, authVars>>
    \/ \E d \in deleting : DeleteFails(d) /\ UNCHANGED <<voiceVars, authVars>>

Spec == Init /\ [][Next]_vars

\* One exchange on its own: a single send, no sidebar operation, every
\* stream of Streams, chunks of every small size.
StreamInit ==
    /\ Init
StreamNext ==
    \/ ListLoaded /\ UNCHANGED <<voiceVars, authVars>>
    \/ \E c \in Contents : sends = <<>> /\ SendInvoke(c) /\ UNCHANGED <<voiceVars, authVars>>
    \/ \E i \in 1..Len(sends) : SendCreated(i) /\ UNCHANGED <<voiceVars, authVars>>
    \/ \E i \in 1..Len(sends) : FetchFails(i) /\ UNCHANGED <<voiceVars, authVars>>
    \/ \E i \in 1..Len(sends) : \E b \in ErrorBodies : FetchNotOk(i, b) /\ UNCHANGED <<voiceVars, authVars>>
    \/ \E i \in 1..Len(sends) : FetchNoBody(i) /\ UNCHANGED <<voiceVars, authVars>>
    \/ \E i \in 1..Len(sends) : \E w \in AllStreams : FetchOk(i, w) /\ UNCHANGED <<voiceVars, authVars>>
    \/ \E i \in 1..Len(sends) :
          \E n \in (1..MaxChunk) \cup {IF sends[i].wire = 0 THEN 0 ELSE Remaining(i)} :
             ReadChunk(i, n) /\ UNCHANGED <<voiceVars, authVars>>
    \/ \E i \in 1..Len(sends) : ReadEnd(i) /\ UNCHANGED <<voiceVars, authVars>>
    \/ \E i \in 1..Len(sends) : ReadFails(i) /\ UNCHANGED <<voiceVars, authVars>>

SpecStream == StreamInit /\ [][StreamNext]_vars

\* The sidebar on its own: no message is sent; the server holds the
\* conversations of SidebarConvs and MaxSidebarOps operations may be started
\* (nOps counts them against MaxOps, so it starts below zero).
SidebarConvs == {1, 2, 3}
SidebarInit ==
    /\ conversations = <<>>
    /\ activeConversationId = NoId
    /\ messages = <<>>
    /\ isStreaming = FALSE
    /\ sends = <<>>
    /\ listPc = "loading"
    /\ loads = <<>>
    /\ creating = 0
    /\ deleting = {}
    /\ srvConvs = SidebarConvs
    /\ srvNext = Cardinality(SidebarConvs) + 1
    /\ clock = 0
    /\ nOps = MaxOps - MaxSidebarOps
    /\ input = <<>>
    /\ isRecording = FALSE
    /\ interimTranscript = <<>>
    /\ finalTranscript = <<>>
    /\ recognitionRef = NoSession
    /\ preRecordingInputRef = <<>>
    /\ disabled = FALSE
    /\ mounted = TRUE
    /\ sessions = <<>>
    /\ sent = 0
    /\ captureStart = <<>>
    /\ last = Did("mount")
    /\ AuthStart(TRUE)

SidebarNext ==
    \/ ListLoaded /\ UNCHANGED <<voiceVars, authVars>>
    \/ ListFails /\ UNCHANGED <<voiceVars, authVars>>
    \/ \E id \in 1..(srvNext - 1) : SelectConversation(id) /\ UNCHANGED <<voiceVars, authVars>>
    \/ \E k \in 1..Len(loads) : LoadResolves(k) /\ UNCHANGED <<voiceVars, authVars>>
    \/ \E k \in 1..Len(loads) : LoadFails(k) /\ UNCHANGED <<voiceVars, authVars>>
    \/ NewConversation /\ UNCHANGED <<voiceVars, authVars>>
    \/ NewConversationCreated /\ UNCHANGED <<voiceVars, authVars>>
    \/ NewConversationFails /\ UNCHANGED <<voiceVars, authVars>>
    \/ \E id \in 1..(srvNext - 1) : DeleteConversation(id) /\ UNCHANGED <<voiceVars, authVars>>
    \/ \E d \in deleting : DeleteResolves(d) /\ UNCHANGED <<voiceVars, authVars>>
    \/ \E d \in deleting : DeleteFails(d) /\ UNCHANGED <<voiceVars, authVars>>

SpecSidebar == SidebarInit /\ [][SidebarNext]_vars

\* Selections only: the list is loaded, conversations are selected one
\* after the other, and every getConversation request resolves, in any
\* order.
SelectNext ==
    \/ ListLoaded /\ UNCHANGED <<voiceVars, authVars>>
    \/ \E id \in 1..(srvNext - 1) : SelectConversation(id) /\ UNCHANGED <<voiceVars, authVars>>
    \/ \E k \in 1..Len(loads) : LoadResolves(k) /\ UNCHANGED <<voiceVars, authVars>>

SpecSelect == SidebarInit /\ [][SelectNext]_vars

\* ------------------------------------------------------------ services/api
\* A request goes through: idle -> sent -> ok | rejected, and on a 401
\* through queued (waiting in failedQueue) or refreshing (its handler awaits
\* POST /api/auth/refresh) back to sent.
Statuses == {200, 401, 500}

\* api.get / post / put / delete of any service.
SendRequest(r) ==
    /\ page # "login"
    /\ requests[r].pc = "idle"
    /\ requests' = [requests EXCEPT ![r].pc = "sent"]
    /\ UNCHANGED <<isRefreshing, failedQueue, tokens, page>>

\* Lines 93-102 when getRefreshToken() returns null: the flag was set on
\* line 94 and the handler returns on line 101.
NoRefreshToken(r) ==
    /\ requests' = [requests EXCEPT ![r].retry = TRUE, ![r].pc = "rejected"]
    /\ isRefreshing' = TRUE
    /\ tokens' = FALSE
    /\ page' = "leaving"
    /\ UNCHANGED failedQueue

\* The response interceptor, lines 72-131, up to its first await.
Respond(r, status) ==
    /\ page # "login"
    /\ requests[r].pc = "sent"
    /\ IF status = 200
       THEN /\ requests' = [requests EXCEPT ![r].pc = "ok"]
            /\ UNCHANGED <<isRefreshing, failedQueue, tokens, page>>
       ELSE IF status # 401 \/ requests[r].retry
       THEN /\ requests' = [requests EXCEPT ![r].pc = "rejected"]
            /\ UNCHANGED <<isRefreshing, failedQueue, tokens, page>>
       ELSE IF isRefreshing
       THEN /\ failedQueue' = Append(failedQueue, r)
            /\ requests' = [requests EXCEPT ![r].pc = "queued"]
            /\ UNCHANGED <<isRefreshing, tokens, page>>
       ELSE IF ~tokens
       THEN NoRefreshToken(r)
       ELSE /\ requests' = [requests EXCEPT ![r].retry = TRUE,
                                            ![r].pc = "refreshing"]
            /\ isRefreshing' = TRUE
            /\ UNCHANGED <<failedQueue, tokens, page>>

\* processQueue, lines 61-70: every waiting request is resumed (it is sent
\* again with the new token) or rejected with the error.
processQueue(reqs, queue, failed) ==
    [q \in 1..MaxRequests |->
        IF \E k \in 1..Len(queue) : queue[k] = q
        THEN [reqs[q] EXCEPT !.pc = IF failed THEN "rejected" ELSE "sent"]
        ELSE reqs[q]]

\* The refresh request resolved: lines 109-118 and the finally of line 125.
RefreshOk(r) ==
    /\ page # "login"
    /\ requests[r].pc = "refreshing"
    /\ tokens' = TRUE
    /\ requests' = [processQueue(requests, failedQueue, FALSE)
                       EXCEPT ![r].pc = "sent"]
    /\ failedQueue' = <<>>
    /\ isRefreshing' = FALSE
    /\ UNCHANGED page

\* The refresh request was rejected: lines 119-125.
RefreshFails(r) ==
    /\ page # "login"
    /\ requests[r].pc = "refreshing"
    /\ requests' = [processQueue(requests, failedQueue, TRUE)
                       EXCEPT ![r].pc = "rejected"]
    /\ failedQueue' = <<>>
    /\ tokens' = FALSE
    /\ page' = "leaving"
    /\ isRefreshing' = FALSE

\* window.location.href = '/login' takes effect: the document is replaced
\* and the module state with it.
LoginPageLoads ==
    /\ page = "leaving"
    /\ page' = "login"
    /\ isRefreshing' = FALSE
    /\ failedQueue' = <<>>
    /\ requests' = [r \in 1..MaxRequests |->
                       [requests[r] EXCEPT
                          !.pc = IF @ \in {"ok", "rejected", "idle"} THEN @
                                 ELSE "abandoned"]]
    /\ UNCHANGED tokens

AuthInit ==
    /\ conversations = <<>>
    /\ activeConversationId = NoId
    /\ messages = <<>>
    /\ isStreaming = FALSE
    /\ sends = <<>>
    /\ listPc = "loading"
    /\ loads = <<>>
    /\ creating = 0
    /\ deleting = {}
    /\ srvConvs = InitConvs
    /\ srvNext = Cardinality(InitConvs) + 1
    /\ clock = 0
    /\ nOps = 0
    /\ input = <<>>
    /\ isRecording = FALSE
    /\ interimTranscript = <<>>
    /\ finalTranscript = <<>>
    /\ recognitionRef = NoSession
    /\ preRecordingInputRef = <<>>
    /\ disabled = FALSE
    /\ mounted = TRUE
    /\ sessions = <<>>
    /\ sent = 0
    /\ captureStart = <<>>
    /\ last = Did("mount")
    /\ \E stored \in BOOLEAN : AuthStart(stored)

AuthNext ==
    \/ \E r \in 1..MaxRequests :
          SendRequest(r) /\ UNCHANGED <<chatVars, voiceVars>>
    \/ \E r \in 1..MaxRequests : \E st \in Statuses :
          Respond(r, st) /\ UNCHANGED <<chatVars, voiceVars>>
    \/ \E r \in 1..MaxRequests :
          RefreshOk(r) /\ UNCHANGED <<chatVars, voiceVars>>
    \/ \E r \in 1..MaxRequests :
          RefreshFails(r) /\ UNCHANGED <<chatVars, voiceVars>>
    \/ LoginPageLoads /\ UNCHANGED <<chatVars, voiceVars>>

SpecAuth == AuthInit /\ [][AuthNext]_vars

\* ChatInput on its own: typing, sending, captures and the provider's
\* events, under a parent that may disable it at any time.
VoiceNext ==
    \/ \E v \in Typed : TypeInput(v)
    \/ HandleSend
    \/ \E b \in BOOLEAN : SetDisabled(b)
    \/ StartRecording
    \/ \E s \in 1..Len(sessions) : \E q \in ResultLists : ProviderResult(s, q)
    \/ \E s \in 1..Len(sessions) : \E k \in ProviderErrors : ProviderError(s, k)
    \/ \E s \in 1..Len(sessions) : \E th \in BOOLEAN : ProviderEnd(s, th)
    \/ ConfirmRecording
    \/ CancelRecording
    \/ Unmount

SpecVoice == Init /\ [][VoiceNext]_vars

\* ------------------------------------------------------- property helpers
Last(q) == q[Len(q)]

IsPrefix(a, b) == Len(a) <= Len(b) /\ SubSeq(b, 1, Len(a)) = a

Contains(hay, needle) ==
    \E k \in 0..(Len(hay) - Len(needle)) :
        SubSeq(hay, k + 1, k + Len(needle)) = needle

\* The concatenation, in order, of the fragments of the onToken calls.
RECURSIVE TokenText(_)
TokenText(calls) ==
    IF calls = <<>> THEN <<>>
    ELSE LET c == Last(calls)
             rest == TokenText(SubSeq(calls, 1, Len(calls) - 1))
         IN  IF c[1] = "onToken" THEN rest \o Field(c[2], K_content).s ELSE rest

\* The same for the token events a stream carries (a token event whose
\* payload JSON.parse rejects reaches no callback and has no fragment).
RECURSIVE StreamTokenText(_)
StreamTokenText(events) ==
    IF events = <<>> THEN <<>>
    ELSE LET e == Last(events)
             rest == StreamTokenText(SubSeq(events, 1, Len(events) - 1))
         IN  IF e[1] = TOKEN /\ JSONParse(e[2]).ok
             THEN rest \o Field(JSONParse(e[2]).v, K_content).s
             ELSE rest

HasErrorEvent(events) == \E k \in 1..Len(events) : events[k][1] = ERROR
NoErrorCall(calls) == \A k \in 1..Len(calls) : calls[k][1] # "onError"

\* The first onDone / onError call of an invocation, 0 when there is none.
FirstTerminal(calls) ==
    LET ks == {k \in 1..Len(calls) : calls[k][1] \in {"onDone", "onError"}} IN
    IF ks = {} THEN 0 ELSE CHOOSE k \in ks : \A j \in ks : k <= j

Opened(i) == sends[i].pc \in {"fetching", "reading"}
Exchanged(i) == sends[i].wire # 0

\* --------------------------------------------------------------------- C1
\* C1: whichever way an exchange ends (done, error, a synthesized transport
\* failure, or end-of-stream with no done/error), the placeholder's
\* isStreaming flag has been cleared: once sendMessage has returned and no
\* invocation is left running, no message has isStreaming = TRUE.
C1_StreamingClearedOnReturn ==
    (Unfinished = {} /\ \E i \in 1..Len(sends) : sends[i].pc = "returned")
        => \A k \in 1..Len(messages) : ~messages[k].isStreaming

\* --------------------------------------------------------------------- C2
StreamingIdx == {k \in 1..Len(messages) : messages[k].isStreaming}
AiIdx == {k \in 1..Len(messages) : messages[k].role = "ai"}

\* C2: in every reachable state at most one message has isStreaming = TRUE,
\* and if one has, it is the most recently appended message with role ai.
C2_AtMostOneStreaming ==
    /\ Cardinality(StreamingIdx) <= 1
    /\ \A k \in StreamingIdx : k \in AiIdx /\ \A j \in AiIdx : j <= k

\* --------------------------------------------------------------------- C3
\* C3: at most one streamed exchange is in flight at any time; a send issued
\* while an earlier one has not finished opens no exchange.
C3_OneExchangeInFlight ==
    Cardinality({i \in 1..Len(sends) : Opened(i)}) <= 1

\* --------------------------------------------------------------------- C4
ApplyCall(st, c, cid) ==
    CASE c[1] = "onToken" -> onToken(st, c[2])
      [] c[1] = "onToolCall" -> onToolCall(st, c[2])
      [] c[1] = "onToolResult" -> onToolResult(st, c[2])
      [] c[1] = "onDone" -> onDone(st, c[2], cid)
      [] OTHER -> onError(st, c[2])

RECURSIVE Replay(_, _, _)
Replay(st, calls, cid) ==
    IF calls = <<>> THEN st
    ELSE Replay(ApplyCall(st, Head(calls), cid), Tail(calls), cid)

\* The ai message as it stood right after the first k callbacks of
\* invocation i, in an exchange nothing else interferes with.
PlaceholderAfter(i, k) ==
    Last(Replay([messages |-> <<HumanMsg(sends[i].content), AiPlaceholder>>,
                 conversations |-> conversations, clock |-> clock,
                 tools |-> <<>>, calls |-> <<>>],
                SubSeq(sends[i].calls, 1, k),
                sends[i].conversationId).messages)

\* C4: after a done or an error event has been dispatched, no later event of
\* the same stream changes the text, tool list, id or isStreaming flag of the
\* exchange's assistant message.
C4_NoChangeAfterTerminal ==
    \A i \in 1..Len(sends) :
        LET k == FirstTerminal(sends[i].calls) IN
        (Exchanged(i) /\ k # 0) => Last(messages) = PlaceholderAfter(i, k)

\* --------------------------------------------------------------------- C5
\* C5: for a well-formed stream, however it is split into chunks, the parse
\* loop dispatches the stream's (event name, payload) pairs in stream order:
\* at every moment a prefix of them, and all of them once the stream ended.
C5_ChunkingIndependent ==
    \A i \in 1..Len(sends) :
        (Exchanged(i) /\ Streams[sends[i].wire].wellFormed) =>
            /\ IsPrefix(sends[i].dispatched, Streams[sends[i].wire].events)
            /\ sends[i].exit = "end" =>
                   sends[i].dispatched = Streams[sends[i].wire].events

\* A chunk boundary fell between the event: and data: lines of a later event
\* and inside a line, after an earlier event was dispatched.
C5_Witness ==
    \E i \in 1..Len(sends) :
        /\ sends[i].pc = "reading"
        /\ Len(sends[i].dispatched) >= 1
        /\ sends[i].eventType # <<>>
        /\ sends[i].eventData = <<>>
        /\ sends[i].buffer # <<>>

\* --------------------------------------------------------------------- C6
\* C6: in an exchange nothing else interferes with, as long as no error has
\* been reported the placeholder's content is the concatenation, in arrival
\* order, of the fragments of the token events dispatched so far; when the
\* stream has ended it is that of all the token events of the stream,
\* however the stream was chunked.
C6_TokenConcatenation ==
    \A i \in 1..Len(sends) :
        (Exchanged(i) /\ NoErrorCall(sends[i].calls)) =>
            /\ LastIsAi(messages)
            /\ Last(messages).content = TokenText(sends[i].calls)
            /\ sends[i].exit = "end" =>
                   Last(messages).content =
                       StreamTokenText(Streams[sends[i].wire].events)

C6_Witness ==
    \E i \in 1..Len(sends) :
        /\ sends[i].exit = "end"
        /\ Len(sends[i].calls) = 3
        /\ Last(messages).content = <<"H", "e", "l", "l", "o">>

\* --------------------------------------------------------------------- C7
\* The tool list the claim describes: a tool_call appends an invocation with
\* no result; a tool_result for name X gives its result to the earliest
\* invocation named X that has not received one, and to none otherwise.
RefToolStep(ref, c) ==
    IF c[1] = "onToolCall"
    THEN Append(ref, [name |-> Field(c[2], K_name), result |-> JNull,
                      received |-> FALSE])
    ELSE IF c[1] = "onToolResult"
    THEN LET hits == {k \in 1..Len(ref) :
                         ref[k].name = Field(c[2], K_name) /\ ~ref[k].received}
         IN  IF hits = {} THEN ref
             ELSE LET k == CHOOSE k \in hits : \A j \in hits : k <= j IN
                  [ref EXCEPT ![k].result = Field(c[2], K_result),
                              ![k].received = TRUE]
    ELSE ref

RECURSIVE RefTools(_)
RefTools(calls) ==
    IF calls = <<>> THEN <<>>
    ELSE RefToolStep(RefTools(SubSeq(calls, 1, Len(calls) - 1)), Last(calls))

\* C7: a tool_result for name X attaches its result to the earliest
\* invocation named X that has not yet received a result, changes no other
\* invocation, and leaves the list unchanged when there is none.
C7_FirstUnresolvedWins ==
    \A i \in 1..Len(sends) :
        LET ref == RefTools(sends[i].calls) IN
        /\ Len(sends[i].tools) = Len(ref)
        /\ \A k \in 1..Len(ref) :
              /\ sends[i].tools[k].name = ref[k].name
              /\ sends[i].tools[k].result = ref[k].result

\* --------------------------------------------------------------------- C8
\* C8: when an error arrives after token fragments were appended, the
\* placeholder's content still holds that partial text, together with the
\* error text.
C8_PartialTextPreserved ==
    \A i \in 1..Len(sends) :
        (/\ Exchanged(i)
         /\ sends[i].calls # <<>>
         /\ Last(sends[i].calls)[1] = "onError"
         /\ FirstTerminal(sends[i].calls) = Len(sends[i].calls)) =>
            /\ Contains(Last(messages).content, TokenText(sends[i].calls))
            /\ Contains(Last(messages).content,
                        Field(Last(sends[i].calls)[2], K_detail).s)

\* --------------------------------------------------------------------- C9
ConvIds(convs) == {convs[k].id : k \in 1..Len(convs)}

\* C9: a send with no active conversation appends nothing and opens no
\* exchange while the conversation is being created; when the creation
\* succeeds, in one step the new conversation is prepended and made active
\* and the human message and then the placeholder are appended; when it
\* fails nothing changes.
C9_Step ==
    /\ \A i \in 1..Len(sends) :
          sends[i].pc = "creating" =>
             /\ ~Exchanged(i) /\ sends[i].calls = <<>> /\ ~sends[i].reads
             /\ sends'[i].pc = "fetching" =>
                   /\ Len(conversations') = Len(conversations) + 1
                   /\ Tail(conversations') = conversations
                   /\ conversations'[1].id \notin ConvIds(conversations)
                   /\ activeConversationId' = conversations'[1].id
                   /\ sends'[i].conversationId = conversations'[1].id
                   /\ messages' = messages \o
                         << [id |-> NoId, role |-> "human",
                             content |-> sends[i].content,
                             isStreaming |-> FALSE, toolCalls |-> <<>>],
                            [id |-> NoId, role |-> "ai", content |-> <<>>,
                             isStreaming |-> TRUE, toolCalls |-> <<>>] >>
             /\ sends'[i].pc = "returned" =>
                   /\ UNCHANGED <<conversations, activeConversationId,
                                  messages, isStreaming>>
                   /\ ~Exchanged(i)'
    /\ (Len(sends') = Len(sends) + 1 /\ activeConversationId = NoId) =>
          /\ UNCHANGED <<conversations, activeConversationId, messages,
                         isStreaming>>
          /\ sends'[Len(sends')].pc = "creating"

C9_CreateThenAppend == [][C9_Step]_vars

\* The first send of a window with no conversation selected has created its
\* conversation and appended its two messages.
C9_Witness ==
    /\ nOps = 0
    /\ Len(sends) = 1
    /\ sends[1].pc = "fetching"
    /\ conversations # <<>>
    /\ conversations[1].id = sends[1].conversationId
    /\ activeConversationId = sends[1].conversationId
    /\ Len(messages) = 2
    /\ messages[1].role = "human"
    /\ messages[2].isStreaming

\* -------------------------------------------------------------------- C10
\* C10: when the exchange cannot be established (fetch rejects, the status
\* is not 2xx, or there is no body reader), sendMessage invokes onError
\* exactly once with a detail string, invokes no other callback, reads no
\* stream and returns normally.
C10_EstablishFailure ==
    \A i \in 1..Len(sends) :
        sends[i].exit \in {"fetchfail", "notok", "nobody"} =>
            /\ ~sends[i].threw
            /\ ~sends[i].reads
            /\ sends[i].dispatched = <<>>
            /\ Len(sends[i].calls) = 1
            /\ sends[i].calls[1][1] = "onError"
            /\ Field(sends[i].calls[1][2], K_detail).t = "str"

\* -------------------------------------------------------------------- C11
\* The callback the claim expects for an event name.
CallbackOf(name) ==
    CASE name = TOKEN -> "onToken"
      [] name = TOOL_CALL -> "onToolCall"
      [] name = TOOL_RESULT -> "onToolResult"
      [] name = DONE -> "onDone"
      [] OTHER -> "onError"

BadEvents == {EvBadJson, EvUnknown}

\* The callbacks a sequence of blocks is to invoke: none for a block of
\* BadEvents, the named one with the decoded payload for every other.
RECURSIVE ExpectedCalls(_)
ExpectedCalls(events) ==
    IF events = <<>> THEN <<>>
    ELSE LET e == Head(events) IN
         (IF e \in BadEvents THEN <<>>
          ELSE << <<CallbackOf(e[1]), JSONParse(e[2]).v>> >>)
         \o ExpectedCalls(Tail(events))

\* C11: an event whose payload is not valid JSON, or whose name is not one
\* of the five, invokes no callback, changes no message and does not end the
\* exchange: the callbacks invoked are exactly those of the other blocks
\* handed over so far, in order, the messages are what those callbacks made
\* of them, and at end-of-stream every block of the stream was handed over.
C11_MalformedDropped ==
    \A i \in 1..Len(sends) :
        (Exchanged(i) /\ sends[i].exit \in {"", "end"}) =>
            /\ sends[i].calls = ExpectedCalls(sends[i].dispatched)
            /\ messages = <<HumanMsg(sends[i].content),
                            PlaceholderAfter(i, Len(sends[i].calls))>>
            /\ (sends[i].exit = "end" /\ ~Streams[sends[i].wire].wellFormed) =>
                   sends[i].dispatched = Streams[sends[i].wire].events

\* A stream with both kinds of dropped block was read to its end and the
\* events after them arrived.
C11_Witness ==
    \E i \in 1..Len(sends) :
        /\ sends[i].exit = "end"
        /\ \E k \in 1..Len(sends[i].dispatched) :
               sends[i].dispatched[k] = EvBadJson
        /\ \E k \in 1..Len(sends[i].dispatched) :
               sends[i].dispatched[k] = EvUnknown
        /\ Len(sends[i].calls) = 3
        /\ Last(messages).content = <<"H", "e", "l", "l", "o">>
        /\ ~Last(messages).isStreaming

\* -------------------------------------------------------------------- C12
\* C12: no event is ever dispatched with an empty name or an empty payload;
\* a block whose data: line is empty after trimming, or that has no event:
\* line, dispatches nothing, and the well-formed blocks after it are
\* dispatched normally.
C12_KeepAliveImmunity ==
    \A i \in 1..Len(sends) :
        /\ \A k \in 1..Len(sends[i].dispatched) :
              /\ sends[i].dispatched[k][1] # <<>>
              /\ sends[i].dispatched[k][2] # <<>>
        /\ (Exchanged(i) /\ ~Streams[sends[i].wire].wellFormed) =>
              /\ IsPrefix(sends[i].dispatched, Streams[sends[i].wire].events)
              /\ sends[i].exit = "end" =>
                     sends[i].dispatched = Streams[sends[i].wire].events

\* The stream that opens with the empty blocks was read to its end and its
\* two events were dispatched.
C12_Witness ==
    \E i \in 1..Len(sends) :
        /\ Exchanged(i)
        /\ IsPrefix(KeepAliveText, Streams[sends[i].wire].text)
        /\ sends[i].exit = "end"
        /\ sends[i].dispatched = <<EvTokA, EvDone7>>
        /\ Last(messages).content = <<"H", "e", "l">>

\* -------------------------------------------------------------------- C13
\* C13: cancel restores the input buffer to exactly the text it held when
\* the capture started, whatever result events the capture received and
\* also when that text was empty, and moves the controller to idle.
C13_CancelRestores ==
    [][CancelRecording =>
          /\ input' = captureStart
          /\ ~isRecording'
          /\ recognitionRef' = NoSession]_vars

\* A capture that started from an empty buffer and received results was
\* cancelled.
C13_Witness ==
    /\ last.op = "cancel"
    /\ ~isRecording
    /\ captureStart = <<>>
    /\ input = <<>>
    /\ \E s \in 1..Len(sessions) :
          sessions[s].state = "stopping" /\ Len(sessions[s].results) = MaxResults

\* -------------------------------------------------------------------- C14
\* C14: a provider end event received while the controller is capturing
\* with the session that ended (no confirm or cancel came before it) leaves
\* the controller capturing and start() is called on the session; when that
\* call throws the throw is swallowed and the controller is capturing still.
C14_EndRestarts ==
    [][\A s \in 1..Len(sessions) :
          (/\ last'.op = "end" /\ last'.ended = s
           /\ isRecording /\ recognitionRef = s) =>
             /\ isRecording'
             /\ recognitionRef' = s
             /\ last'.started = s
             /\ ~last'.threw => sessions'[s].state = "running"
             /\ last'.threw => sessions'[s].state = "ended"
             /\ <<input, finalTranscript, interimTranscript,
                  preRecordingInputRef>>' =
                <<input, finalTranscript, interimTranscript,
                  preRecordingInputRef>>]_vars

\* The provider ended the session of a capture that had committed final
\* text, and the session was started again.
C14_Witness ==
    /\ last.op = "end"
    /\ last.ended = recognitionRef
    /\ last.started = recognitionRef
    /\ ~last.threw
    /\ isRecording
    /\ recognitionRef # NoSession
    /\ sessions[recognitionRef].state = "running"
    /\ finalTranscript # <<>>

\* The same with a start() that threw.
C14_WitnessThrow ==
    /\ last.op = "end"
    /\ last.started = recognitionRef
    /\ last.threw
    /\ isRecording
    /\ recognitionRef # NoSession
    /\ sessions[recognitionRef].state = "ended"

\* -------------------------------------------------------------------- C15
\* C15: a session on which stop() was called is no longer the session the
\* controller holds, so the end event of a session stopped by confirm,
\* cancel or teardown calls start() on no session and does not change
\* whether the controller is capturing.
C15_NoRestartAfterStop ==
    [][\A s \in 1..Len(sessions) :
          /\ sessions[s].state \in {"stopping", "closing"} =>
                recognitionRef # s
          /\ (/\ last'.op = "end" /\ last'.ended = s
              /\ sessions[s].state \in {"stopping", "closing"}) =>
                /\ last'.started = NoSession
                /\ isRecording' = isRecording
                /\ recognitionRef' = recognitionRef
                /\ \A t \in 1..Len(sessions) :
                      t # s => sessions'[t] = sessions[t]]_vars

\* The end event of a stopped session arrived while the controller was idle.
C15_Witness ==
    /\ last.op = "end"
    /\ last.started = NoSession
    /\ ~isRecording
    /\ mounted
    /\ recognitionRef = NoSession
    /\ sessions[last.ended].state = "ended"
    /\ ~sessions[last.ended].onend

\* The end event of a stopped session arrived during the next capture.
C15_WitnessNextCapture ==
    /\ last.op = "end"
    /\ last.started = NoSession
    /\ isRecording
    /\ recognitionRef # NoSession
    /\ last.ended # recognitionRef
    /\ sessions[recognitionRef].state = "running"

\* -------------------------------------------------------------------- C16
\* C16: while the controller is capturing, the input buffer is changed only
\* by provider result events and by cancel; no manual edit and no send
\* happens before confirm or cancel has returned the controller to idle.
C16_SingleWriter ==
    [][isRecording =>
          /\ input' # input => last'.op \in {"result", "cancel"}
          /\ sent' = sent
          /\ last'.op \notin {"type", "send", "start"}]_vars

\* During a capture a result event has written the buffer.
C16_Witness ==
    /\ isRecording
    /\ mounted
    /\ last.op = "result"
    /\ input # captureStart
    /\ ~disabled

\* -------------------------------------------------------------------- C17
\* C17: at end-of-stream an event with non-empty name and non-empty data
\* that was parsed but not yet terminated by a blank line is dispatched,
\* once; when no such event is pending the end of the stream dispatches
\* nothing.
C17_FlushAtEnd ==
    [][\A i \in 1..Len(sends) :
          (sends[i].pc = "reading" /\ sends'[i].exit = "end") =>
             IF sends[i].eventType # <<>> /\ sends[i].eventData # <<>>
             THEN /\ sends'[i].dispatched =
                        Append(sends[i].dispatched,
                               <<sends[i].eventType, sends[i].eventData>>)
                  /\ Len(sends'[i].calls) = Len(sends[i].calls) + 1
             ELSE /\ sends'[i].dispatched = sends[i].dispatched
                  /\ sends'[i].calls = sends[i].calls
                  /\ messages' = messages]_vars

\* The stream whose last frame lacks the blank line was read to its end:
\* the pending token was dispatched once and its text is in the message.
C17_Witness ==
    \E i \in 1..Len(sends) :
        /\ sends[i].exit = "end"
        /\ sends[i].eventType = TOKEN
        /\ sends[i].dispatched = <<EvTokA, EvTokB>>
        /\ Last(messages).content = <<"H", "e", "l", "l", "o">>

\* -------------------------------------------------------------------- C18
\* The callback an exchange invoked in this step, if it invoked exactly one.
InvokedNow(i, name) ==
    /\ Len(sends'[i].calls) = Len(sends[i].calls) + 1
    /\ Last(sends'[i].calls)[1] = name

RECURSIVE TextOf(_, _)
TextOf(list, b) ==
    IF list = <<>> THEN <<>>
    ELSE LET rest == TextOf(SubSeq(list, 1, Len(list) - 1), b)
             r == list[Len(list)]
         IN  IF r.isFinal = b THEN rest \o r.transcript ELSE rest

Merged(pre, list) ==
    IF pre = <<>> THEN TextOf(list, TRUE) \o TextOf(list, FALSE)
    ELSE pre \o <<" ">> \o TextOf(list, TRUE) \o TextOf(list, FALSE)

\* C19: after every provider result event during a capture the buffer is
\* preCapture + ' ' + F + I (F + I when preCapture is empty), F and I being
\* the final and the interim transcripts of the event's result list in
\* order; this holds for a list delivered again or revised as well, so no
\* text is appended twice.
C19_Recompute ==
    [][(last'.op = "result" /\ isRecording /\ mounted) =>
          \A s \in 1..Len(sessions) :
             \A list \in NextResults(sessions[s].results) :
                ProviderResult(s, list) =>
                   /\ input' = Merged(captureStart, list)
                   /\ finalTranscript' = TextOf(list, TRUE)
                   /\ interimTranscript' = TextOf(list, FALSE)]_vars

\* A capture started from the buffer "a"; a first result was delivered and
\* then a list of two results that holds the first one again, now final,
\* with an interim second: the buffer holds each transcript once.
C19_Witness ==
    /\ isRecording
    /\ last.op = "result"
    /\ captureStart = <<"a">>
    /\ recognitionRef # NoSession
    /\ Len(sessions[recognitionRef].results) = 2
    /\ sessions[recognitionRef].results[1].isFinal
    /\ ~sessions[recognitionRef].results[2].isFinal
    /\ input = <<"a", " ", "y", "z">>

C20_WitnessNoId ==
    \E i \in 1..Len(sends) :
        /\ sends[i].wire = 4
        /\ sends[i].calls # <<>>
        /\ Last(sends[i].calls)[1] = "onDone"
        /\ Last(messages).id = NoId
        /\ ~Last(messages).isStreaming
        /\ Last(messages).content = <<"H", "e", "l", "l", "o">>

\* -------------------------------------------------------------------- C21
\* C21: confirm moves the controller from capturing to idle, stops the
\* provider session, clears interim and final, and leaves the input buffer
\* exactly as it was immediately before confirm.
C21_ConfirmKeeps ==
    [][last'.op = "confirm" =>
          /\ isRecording /\ ~isRecording'
          /\ input' = input
          /\ interimTranscript' = <<>> /\ finalTranscript' = <<>>
          /\ recognitionRef' = NoSession
          /\ \A s \in 1..Len(sessions) :
                IF s = recognitionRef
                THEN /\ sessions'[s].state = Stopped(sessions[s].state)
                     /\ sessions'[s].state # "running"
                     /\ ~sessions'[s].onend
                ELSE sessions'[s] = sessions[s]]_vars

\* A capture that started from "a" and merged a final and an interim
\* transcript into the buffer was confirmed: the buffer holds the merged
\* text and the session has been told to stop.
C21_Witness ==
    /\ last.op = "confirm"
    /\ ~isRecording
    /\ captureStart = <<"a">>
    /\ input = <<"a", " ", "x", "z">>
    /\ interimTranscript = <<>> /\ finalTranscript = <<>>
    /\ \E s \in 1..Len(sessions) : sessions[s].state = "stopping"

\* -------------------------------------------------------------------- C22
\* C22: a provider error event of any kind never changes the controller
\* state, the input buffer, final, interim or preCapture; the controller
\* stays capturing.
C22_ErrorChangesNothing ==
    [][last'.op = "error" =>
          UNCHANGED <<isRecording, input, finalTranscript, interimTranscript,
                      preRecordingInputRef, recognitionRef>>]_vars

\* During a capture whose buffer holds a transcript the session reported an
\* error other than no-speech; the controller is capturing still.
C22_Witness ==
    /\ last.op = "error"
    /\ isRecording /\ mounted
    /\ recognitionRef # NoSession
    /\ sessions[recognitionRef].state = "failed"
    /\ sessions[recognitionRef].error = "network"
    /\ input # captureStart
    /\ finalTranscript # <<>>

\* The same for the benign no-speech error.
C22_WitnessNoSpeech ==
    /\ last.op = "error"
    /\ isRecording /\ mounted
    /\ recognitionRef # NoSession
    /\ sessions[recognitionRef].error = "no-speech"

\* -------------------------------------------------------------------- C23
\* C23: deleting a conversation removes exactly that conversation from the
\* list; the message list is emptied and the active-conversation pointer
\* cleared if and only if the deleted conversation is the active one; when
\* the delete request fails, the conversation list, the message list and the
\* active pointer are unchanged.
C23_DeleteFrame ==
    [][\A d \in deleting :
          /\ DeleteResolves(d) =>
                /\ conversations' =
                      SelectSeq(conversations, LAMBDA c : c.id # d.id)
                /\ IF activeConversationId = d.id
                   THEN activeConversationId' = NoId /\ messages' = <<>>
                   ELSE /\ activeConversationId' = activeConversationId
                        /\ messages' = messages
          /\ DeleteFails(d) =>
                UNCHANGED <<conversations, messages, activeConversationId>>
      ]_vars

\* -------------------------------------------------------------------- C24
\* C24: under any interleaving of an in-flight exchange with conversation
\* operations, the events of the exchange modify no message other than the
\* placeholder the exchange appended: when the list holds the messages
\* loaded for another conversation, a step in which the exchange invokes
\* callbacks leaves the list as it is.
C24_LoadedUntouched ==
    [][\A i \in 1..Len(sends) :
          sends'[i].calls # sends[i].calls =>
             \A c \in 1..(srvNext - 1) :
                (c # sends[i].conversationId /\ messages = ServerMessages(c))
                   => messages' = messages]_vars

\* -------------------------------------------------------------------- C25
\* C25: once the controller is idle (after confirm, cancel or before any
\* start), no provider event delivered late (result, end or error of a
\* stopped session) changes the input buffer, final, interim or the
\* controller state.
C25_IdleIgnoresProvider ==
    [][(~isRecording /\ last'.op \in {"result", "end", "error"}) =>
          UNCHANGED <<input, finalTranscript, interimTranscript,
                      isRecording>>]_vars

\* -------------------------------------------------------------------- C26
\* C26: once a tool invocation has received a result from a tool_result
\* event (any result string, the empty string included), no later
\* tool_result event changes that invocation's result, and an invocation
\* that has received none has no result.
C26_ResultWrittenOnce ==
    [][\A i \in 1..Len(sends) :
          InvokedNow(i, "onToolResult") =>
             LET ref == RefTools(sends[i].calls) IN
             \A k \in 1..Len(sends[i].tools) :
                IF ref[k].received
                THEN sends'[i].tools[k].result = sends[i].tools[k].result
                ELSE sends[i].tools[k].result = JNull]_vars

\* -------------------------------------------------------------------- C27
\* C27: when several selections were made in quick succession and their
\* message loads have all completed, in whatever order, the message list
\* holds the messages of the conversation the active-conversation pointer
\* designates.
C27_LoadsSettle ==
    (loads = <<>> /\ activeConversationId # NoId)
        => messages = ServerMessages(activeConversationId)

\* -------------------------------------------------------------------- C28
\* C28: transcript text committed as final before a provider-initiated end
\* and automatic restart is still part of the buffer after result events of
\* the restarted session: within one capture (no start, confirm or cancel in
\* between) the committed final text never shrinks.
C28_FinalNeverShrinks ==
    [][(isRecording /\ isRecording' /\ mounted
        /\ last'.op \notin {"start", "confirm", "cancel"})
          => /\ IsPrefix(finalTranscript, finalTranscript')
             /\ Contains(input', finalTranscript)]_vars

\* -------------------------------------------------------------------- C29
\* C29: every event whose event: line and data: line (both non-empty) were
\* fully received before end-of-stream is dispatched exactly once, also when
\* the last data: line of the stream is not followed by a newline character.
C29_LastLineDispatched ==
    \A i \in 1..Len(sends) :
        (/\ Exchanged(i)
         /\ Streams[sends[i].wire].text =
               Frame(EvTokA, LF) \o NoFinalNewline(EvTokB, LF)
         /\ sends[i].exit = "end")
            => sends[i].dispatched = <<EvTokA, EvTokB>>

\* -------------------------------------------------------------------- C30
RefreshesInFlight == {r \in 1..MaxRequests : requests[r].pc = "refreshing"}

\* C30: at most one token refresh request is in flight at a time, and
\* whenever none is in flight the isRefreshing flag is false and the queue of
\* waiting requests is empty, on every path including the one where no
\* refresh token is stored.
C30_RefreshExclusive ==
    /\ Cardinality(RefreshesInFlight) <= 1
    /\ RefreshesInFlight = {} =>
          /\ ~isRefreshing
          /\ failedQueue = <<>>
          /\ \A r \in 1..MaxRequests : requests[r].pc # "queued"

====
